---- MODULE Spec2Model ----
(***************************************************************************)
(* netmon: the multi-host sampling scheduler (netmon/scheduler.py), its    *)
(* one-shot workers (netmon/workers.py), the Measurement entity            *)
(* (netmon/models.py) and the bounded Result Store                         *)
(* (netmon/ui/measurement_model.py) fed by MainWindow.on_sample_ready.     *)
(*                                                                         *)
(* A host string is a sequence of one-character strings, so that           *)
(* str.strip() is computed and not assumed.  An optional value is a        *)
(* sequence of length 0 (None) or 1.  Timestamps are left out: no          *)
(* operation modelled here reads Measurement.ts.                           *)
(***************************************************************************)
EXTENDS Integers, Sequences, FiniteSets, Bags, TLC

(* ------------------------------ bounds --------------------------------- *)

\* largest value the generation counter is driven to
MaxGeneration == 1

\* max_rows MainWindow builds the Result Store with (300, scaled down)
MaxRows == 1

\* largest max_rows a Result Store is constructed with
MaxStoreRows == 3

(* ------------------------------ inputs --------------------------------- *)

None == <<>>

Some(v) == <<v>>

\* strings passed to add_host / remove_host
HostInputs ==
    { <<"a">>, <<"b">>, <<" ", "a">>, <<"b", " ">>, <<>>, <<" ">> }

\* max_concurrent values passed to the constructor
ConcurrencyInputs == {1, 2}

\* interval_ms values passed to the constructor and to set_interval
IntervalInputs == {1000}

\* (latency_ms, loss) pairs a probe builds its Measurement from
ProbeReturns == { <<Some(25), FALSE>> }

\* message of the exception a probe may raise
ProbeFailure == <<"f", "a", "i", "l">>

(* --------------------------- pure functions ---------------------------- *)

IsSpace(c) == c \in {" ", "\t", "\n", "\r"}

RECURSIVE lstrip(_)
lstrip(s) ==
    IF s = <<>> THEN s
    ELSE IF IsSpace(Head(s)) THEN lstrip(Tail(s))
    ELSE s

RECURSIVE rstrip(_)
rstrip(s) ==
    IF s = <<>> THEN s
    ELSE IF IsSpace(s[Len(s)]) THEN rstrip(SubSeq(s, 1, Len(s) - 1))
    ELSE s

\* str.strip()
strip(s) == rstrip(lstrip(s))

\* x in list
InList(x, list) == \E i \in 1..Len(list) : list[i] = x

\* list.remove(x): drops the first occurrence
RECURSIVE ListRemove(_, _)
ListRemove(list, x) ==
    IF list = <<>> THEN list
    ELSE IF Head(list) = x THEN Tail(list)
    ELSE <<Head(list)>> \o ListRemove(Tail(list), x)

\* dict.get(key, default)
DictGet(d, key, default) == IF key \in DOMAIN d THEN d[key] ELSE default

\* d[key] = value
DictSet(d, key, value) ==
    [k \in (DOMAIN d) \cup {key} |-> IF k = key THEN value ELSE d[k]]

\* d.pop(key, None)
DictPop(d, key) == [k \in (DOMAIN d) \ {key} |-> d[k]]

EmptyDict == [k \in {} |-> FALSE]

Max(a, b) == IF a >= b THEN a ELSE b

\* __post_init__ testing the latency for truth instead of for None
MeasurementFalsy(host, latency_ms, loss) ==
    IF loss THEN [host |-> host, latency_ms |-> None, loss |-> TRUE]
    ELSE IF latency_ms = None \/ latency_ms = Some(0)
         THEN [host |-> host, latency_ms |-> latency_ms, loss |-> TRUE]
         ELSE [host |-> host, latency_ms |-> latency_ms, loss |-> FALSE]

\* Measurement(ts, host, latency_ms, loss) with __post_init__
Measurement(host, latency_ms, loss) ==
    IF loss THEN [host |-> host, latency_ms |-> None, loss |-> TRUE]
    ELSE IF latency_ms = None
         THEN [host |-> host, latency_ms |-> None, loss |-> TRUE]
         ELSE [host |-> host, latency_ms |-> latency_ms, loss |-> FALSE]

(* ------------------------------- state --------------------------------- *)

VARIABLES
    hosts,              \* MultiHostScheduler._hosts
    host_in_flight,     \* MultiHostScheduler._host_in_flight
    global_in_flight,   \* MultiHostScheduler._global_in_flight
    generation_id,      \* MultiHostScheduler._generation_id
    is_monitoring,      \* MultiHostScheduler.is_monitoring
    interval_ms,        \* MultiHostScheduler.interval_ms
    max_concurrent,     \* MultiHostScheduler.max_concurrent
    timer,              \* MultiHostScheduler.timer: [active, interval]
    workers,            \* bag of SampleWorkers whose completion is not yet handled
    measurements,       \* MeasurementModel._measurements
    max_rows,           \* MeasurementModel._max_rows
    snapshot,           \* what get_hosts, get_stats or get_measurements returned last
    last                \* the call or handler that ran last, and what it emitted

sched == <<hosts, host_in_flight, global_in_flight, generation_id,
           is_monitoring, interval_ms, max_concurrent, timer>>

vars == <<hosts, host_in_flight, global_in_flight, generation_id,
          is_monitoring, interval_ms, max_concurrent, timer,
          workers, measurements, max_rows, snapshot, last>>

(* ------------------------------ signals -------------------------------- *)

\* WorkerSignals.sample_ready(Measurement, generation_id, host)
SampleReady(sample, gen, host) == <<"sample_ready", sample, gen, host>>

\* WorkerSignals.error(msg)
WorkerError(msg) == <<"error", msg>>

\* WorkerSignals.finished()
Finished == <<"finished">>

\* MultiHostScheduler.error(host, msg)
SchedulerError(host, msg) == <<"error", host, msg>>

\* the thread running the Qt event loop: MainWindow, the scheduler and its
\* timer are built on it, and the widgets' handlers run on it
ControlThread == "control"

\* a thread of QThreadPool.globalInstance(), running SampleWorker.run
PoolThread == "pool"

\* a connection of type Qt.DirectConnection: the slot runs inside the emit
DirectConnection(receiver, emitter) == [thread |-> emitter, queued |-> FALSE]

\* connect(slot) with the default type Qt.AutoConnection: the slot runs on the
\* thread its receiver lives on, inside the emit when the signal is emitted
\* there, as an event queued to that thread when it is emitted elsewhere
AutoConnection(receiver, emitter) ==
    [thread |-> receiver, queued |-> receiver # emitter]

\* where the code of operation op runs. The receivers of a worker's signals
\* are the scheduler (bound methods) and the closure connected to finished,
\* whose connection is made by _schedule_sample on the control thread for a
\* WorkerSignals object built there; nothing is moved to another thread.
Runs(op) ==
    CASE op = "run" -> [thread |-> PoolThread, queued |-> FALSE]
      [] op \in {"sample_ready", "sample_error", "sample_finished"} ->
            AutoConnection(ControlThread, PoolThread)
      [] op = "tick" -> AutoConnection(ControlThread, ControlThread)
      [] OTHER -> [thread |-> ControlThread, queued |-> FALSE]

\* what a step records: the operation, the thread it runs on and whether it
\* was queued to it, the worker whose report it handled (host, stamped
\* generation, dispatched before the latest stop), the hosts it dispatched,
\* the scheduler signals it emitted, and the arguments of set_interval or of
\* a direct call on the Result Store
Event(op, worker, dispatched, emitted) ==
    [op          |-> op,
     thread      |-> Runs(op).thread,
     queued      |-> Runs(op).queued,
     host        |-> IF worker = <<>> THEN <<>> ELSE worker[1].host,
     stamp       |-> IF worker = <<>> THEN -1 ELSE worker[1].generation_id,
     before_stop |-> IF worker = <<>> THEN FALSE ELSE worker[1].before_stop,
     dispatched  |-> dispatched,
     emitted     |-> emitted,
     args        |-> <<>>]

\* a step that is a direct call with arguments args
Call(op, args) == [Event(op, <<>>, <<>>, <<>>) EXCEPT !.args = args]

\* what a caller holds after a getter returned: the object's kind, whether it
\* is the scheduler's or store's own object (live) or a new one, its content
Returned(of, live, value) == [of |-> of, live |-> live, value |-> value]

\* no getter has been called
NoSnapshot == Returned("none", FALSE, <<>>)

(* ------------------------------- Init ---------------------------------- *)

Init ==
    /\ hosts = <<>>
    /\ host_in_flight = EmptyDict
    /\ global_in_flight = 0
    /\ generation_id = 0
    /\ is_monitoring = FALSE
    /\ interval_ms \in IntervalInputs
    /\ max_concurrent \in ConcurrencyInputs
    /\ timer = [active |-> FALSE, interval |-> 0]
    /\ workers = EmptyBag
    /\ measurements = <<>>
    /\ max_rows = MaxRows
    /\ snapshot = NoSnapshot
    /\ last = Event("init", <<>>, <<>>, <<>>)

(* ------------------------------ workers -------------------------------- *)

\* SampleWorker(collector, host, generation_id) as _schedule_sample builds it.
\* queue holds the reports it has emitted that the control thread has not yet
\* handled; before_stop records that stop_monitoring stopped the scheduler
\* after its dispatch (history only, read by no operation).
SampleWorker(host, gen) ==
    [host |-> host, generation_id |-> gen, pc |-> "running", queue |-> <<>>,
     before_stop |-> FALSE]

Outstanding == BagToSet(workers)

\* the bag with one copy of w replaced by v
Replace(bag, w, v) == (bag (-) SetToBag({w})) (+) SetToBag({v})

\* every copy of every worker changed by f
MapBag(bag, f(_)) ==
    LET ws == BagToSet(bag)
        img == {f(w) : w \in ws}
        Count(v, S) ==
            LET RECURSIVE Sum(_)
                Sum(T) == IF T = {} THEN 0
                          ELSE LET x == CHOOSE y \in T : TRUE
                               IN  bag[x] + Sum(T \ {x})
            IN  Sum({w \in S : f(w) = v})
    IN  [v \in img |-> Count(v, ws)]

\* number of outstanding workers for host h
OutstandingFor(h) ==
    BagCardinality([w \in {x \in Outstanding : x.host = h} |-> workers[w]])

(* ----------------------------- Result Store ---------------------------- *)

\* append_measurement evicting only above capacity
append_measurement_late(store, measurement) ==
    LET at_capacity == Len(store) > max_rows
        kept == IF at_capacity THEN Tail(store) ELSE store
    IN  Append(kept, measurement)

\* MeasurementModel.append_measurement
append_measurement(store, measurement) ==
    LET at_capacity == Len(store) >= max_rows
        kept == IF at_capacity THEN Tail(store) ELSE store
    IN  Append(kept, measurement)

\* MeasurementModel.clear
MeasurementModel_clear(store) == <<>>

(* --------------------------- host registry ----------------------------- *)

\* the Host Registry: _hosts and _host_in_flight
Registry == [hosts |-> hosts, host_in_flight |-> host_in_flight]

\* add_host without host.strip()
add_host_untrimmed(host) ==
    LET h == host IN
    /\ IF h = <<>>
       THEN UNCHANGED <<hosts, host_in_flight>>
       ELSE IF ~InList(h, hosts)
            THEN /\ hosts' = Append(hosts, h)
                 /\ host_in_flight' = DictSet(host_in_flight, h, FALSE)
            ELSE UNCHANGED <<hosts, host_in_flight>>
    /\ last' = Event("add_host", <<>>, <<>>, <<>>)
    /\ UNCHANGED <<global_in_flight, generation_id, is_monitoring, interval_ms,
                   max_concurrent, timer, workers, measurements, max_rows, snapshot>>

\* add_host writing the flag of a host that is already registered
add_host_resetting(host) ==
    LET h == strip(host) IN
    /\ IF h = <<>>
       THEN UNCHANGED <<hosts, host_in_flight>>
       ELSE /\ hosts' = IF InList(h, hosts) THEN hosts ELSE Append(hosts, h)
            /\ host_in_flight' = DictSet(host_in_flight, h, FALSE)
    /\ last' = Event("add_host", <<>>, <<>>, <<>>)
    /\ UNCHANGED <<global_in_flight, generation_id, is_monitoring, interval_ms,
                   max_concurrent, timer, workers, measurements, max_rows, snapshot>>

\* add_host inserting a new host before the registered ones
AddHostFront(reg, host) ==
    LET h == strip(host) IN
    IF h = <<>> THEN reg
    ELSE IF ~InList(h, reg.hosts)
         THEN [hosts          |-> <<h>> \o reg.hosts,
               host_in_flight |-> DictSet(reg.host_in_flight, h, FALSE)]
         ELSE reg

\* the registry and flag map add_host(host) leaves behind, given reg
AddHost(reg, host) ==
    LET h == strip(host) IN
    IF h = <<>> THEN reg
    ELSE IF ~InList(h, reg.hosts)
         THEN [hosts          |-> Append(reg.hosts, h),
               host_in_flight |-> DictSet(reg.host_in_flight, h, FALSE)]
         ELSE reg

add_host(host) ==
    /\ hosts' = AddHost(Registry, host).hosts
    /\ host_in_flight' = AddHost(Registry, host).host_in_flight
    /\ last' = Event("add_host", <<>>, <<>>, <<>>)
    /\ UNCHANGED <<global_in_flight, generation_id, is_monitoring, interval_ms,
                   max_concurrent, timer, workers, measurements, max_rows, snapshot>>

\* remove_host rebuilding the flag map with every remaining host idle
remove_host_resetting(host) ==
    /\ IF InList(host, hosts)
       THEN /\ hosts' = ListRemove(hosts, host)
            /\ host_in_flight' = [k \in (DOMAIN host_in_flight) \ {host} |-> FALSE]
       ELSE UNCHANGED <<hosts, host_in_flight>>
    /\ last' = Event("remove_host", <<>>, <<>>, <<>>)
    /\ UNCHANGED <<global_in_flight, generation_id, is_monitoring, interval_ms,
                   max_concurrent, timer, workers, measurements, max_rows, snapshot>>

\* the registry and flag map remove_host(host) leaves behind, given reg
RemoveHost(reg, host) ==
    IF InList(host, reg.hosts)
    THEN [hosts          |-> ListRemove(reg.hosts, host),
          host_in_flight |-> DictPop(reg.host_in_flight, host)]
    ELSE reg

remove_host(host) ==
    /\ hosts' = RemoveHost(Registry, host).hosts
    /\ host_in_flight' = RemoveHost(Registry, host).host_in_flight
    /\ last' = Event("remove_host", <<>>, <<>>, <<>>)
    /\ UNCHANGED <<global_in_flight, generation_id, is_monitoring, interval_ms,
                   max_concurrent, timer, workers, measurements, max_rows, snapshot>>

\* clear_hosts that stops the scheduler once no host is left
clear_hosts_stopping ==
    /\ hosts' = <<>>
    /\ host_in_flight' = EmptyDict
    /\ is_monitoring' = FALSE
    /\ timer' = [timer EXCEPT !.active = FALSE]
    /\ last' = Event("clear_hosts", <<>>, <<>>, <<>>)
    /\ UNCHANGED <<global_in_flight, generation_id, interval_ms,
                   max_concurrent, workers, measurements, max_rows, snapshot>>

\* clear_hosts that also resets the in-flight count
clear_hosts_resetting ==
    /\ hosts' = <<>>
    /\ host_in_flight' = EmptyDict
    /\ global_in_flight' = 0
    /\ last' = Event("clear_hosts", <<>>, <<>>, <<>>)
    /\ UNCHANGED <<generation_id, is_monitoring, interval_ms,
                   max_concurrent, timer, workers, measurements, max_rows, snapshot>>

clear_hosts ==
    /\ hosts' = <<>>
    /\ host_in_flight' = EmptyDict
    /\ last' = Event("clear_hosts", <<>>, <<>>, <<>>)
    /\ UNCHANGED <<global_in_flight, generation_id, is_monitoring, interval_ms,
                   max_concurrent, timer, workers, measurements, max_rows, snapshot>>

(* ---------------------------- start / stop ----------------------------- *)

\* every outstanding worker was dispatched before this stop
MarkBeforeStop(bag) ==
    LET mark(w) == [w EXCEPT !.before_stop = TRUE] IN MapBag(bag, mark)

\* start_monitoring that also advances the generation
start_monitoring_advancing ==
    /\ ~is_monitoring => generation_id < MaxGeneration
    /\ IF is_monitoring
       THEN UNCHANGED <<is_monitoring, timer, generation_id>>
       ELSE /\ is_monitoring' = TRUE
            /\ timer' = [active |-> TRUE, interval |-> interval_ms]
            /\ generation_id' = generation_id + 1
    /\ last' = Event("start_monitoring", <<>>, <<>>, <<>>)
    /\ UNCHANGED <<hosts, host_in_flight, global_in_flight,
                   interval_ms, max_concurrent, workers, measurements, max_rows, snapshot>>

start_monitoring ==
    /\ IF is_monitoring
       THEN UNCHANGED <<is_monitoring, timer>>
       ELSE /\ is_monitoring' = TRUE
            /\ timer' = [active |-> TRUE, interval |-> interval_ms]
    /\ last' = Event("start_monitoring", <<>>, <<>>, <<>>)
    /\ UNCHANGED <<hosts, host_in_flight, global_in_flight, generation_id,
                   interval_ms, max_concurrent, workers, measurements, max_rows, snapshot>>

\* stop_monitoring that forgets to advance the generation
StoppedGenerationSame(gen) == gen

\* the generation after stop_monitoring has stopped a running scheduler
StoppedGeneration(gen) == gen + 1

\* stop_monitoring without its early return
stop_monitoring_unguarded ==
    /\ generation_id <= MaxGeneration
    /\ is_monitoring' = FALSE
    /\ timer' = [timer EXCEPT !.active = FALSE]
    /\ generation_id' = StoppedGeneration(generation_id)
    /\ workers' = MarkBeforeStop(workers)
    /\ last' = Event("stop_monitoring", <<>>, <<>>, <<>>)
    /\ UNCHANGED <<hosts, host_in_flight, global_in_flight, interval_ms,
                   max_concurrent, measurements, max_rows, snapshot>>

\* stop_monitoring that pauses: the generation is left as it is
stop_monitoring_pausing ==
    /\ IF ~is_monitoring
       THEN UNCHANGED <<is_monitoring, timer, workers>>
       ELSE /\ is_monitoring' = FALSE
            /\ timer' = [timer EXCEPT !.active = FALSE]
            /\ workers' = MarkBeforeStop(workers)
    /\ last' = Event("stop_monitoring", <<>>, <<>>, <<>>)
    /\ UNCHANGED <<hosts, host_in_flight, global_in_flight, generation_id,
                   interval_ms, max_concurrent, measurements, max_rows, snapshot>>

stop_monitoring ==
    /\ is_monitoring => generation_id < MaxGeneration
    /\ IF ~is_monitoring
       THEN UNCHANGED <<is_monitoring, timer, generation_id, workers>>
       ELSE /\ is_monitoring' = FALSE
            /\ timer' = [timer EXCEPT !.active = FALSE]
            /\ generation_id' = StoppedGeneration(generation_id)
            /\ workers' = MarkBeforeStop(workers)
    /\ last' = Event("stop_monitoring", <<>>, <<>>, <<>>)
    /\ UNCHANGED <<hosts, host_in_flight, global_in_flight, interval_ms,
                   max_concurrent, measurements, max_rows, snapshot>>

\* set_interval that leaves a running timer at its old period
set_interval_stale(ms) ==
    /\ interval_ms' = ms
    /\ timer' = timer
    /\ last' = Call("set_interval", <<ms>>)
    /\ UNCHANGED <<hosts, host_in_flight, global_in_flight, generation_id,
                   is_monitoring, max_concurrent, workers, measurements, max_rows, snapshot>>

set_interval(ms) ==
    /\ interval_ms' = ms
    /\ timer' = IF timer.active THEN [timer EXCEPT !.interval = ms] ELSE timer
    /\ last' = Call("set_interval", <<ms>>)
    /\ UNCHANGED <<hosts, host_in_flight, global_in_flight, generation_id,
                   is_monitoring, max_concurrent, workers, measurements, max_rows, snapshot>>

\* clear_data that also stops the scheduler
clear_data_stopping ==
    /\ measurements' = MeasurementModel_clear(measurements)
    /\ UNCHANGED <<max_rows, snapshot>>
    /\ is_monitoring' = FALSE
    /\ timer' = [timer EXCEPT !.active = FALSE]
    /\ last' = Event("clear_data", <<>>, <<>>, <<>>)
    /\ UNCHANGED <<hosts, host_in_flight, global_in_flight, generation_id,
                   interval_ms, max_concurrent, workers>>

\* MainWindow.clear_data
clear_data ==
    /\ measurements' = MeasurementModel_clear(measurements)
    /\ UNCHANGED <<max_rows, snapshot>>
    /\ last' = Event("clear_data", <<>>, <<>>, <<>>)
    /\ UNCHANGED <<sched, workers>>

(* ------------------------------- tick ---------------------------------- *)

\* _schedule_sample stamping the worker with the generation after the current
schedule_sample_ahead(st, host) ==
    [host_in_flight   |-> DictSet(st.host_in_flight, host, TRUE),
     global_in_flight |-> st.global_in_flight + 1,
     workers          |-> st.workers (+) SetToBag({SampleWorker(host, generation_id + 1)}),
     dispatched       |-> Append(st.dispatched, host)]

\* _schedule_sample(host) on the tick's working state
\* st = [host_in_flight, global_in_flight, workers, dispatched]
schedule_sample(st, host) ==
    [host_in_flight   |-> DictSet(st.host_in_flight, host, TRUE),
     global_in_flight |-> st.global_in_flight + 1,
     workers          |-> st.workers (+) SetToBag({SampleWorker(host, generation_id)}),
     dispatched       |-> Append(st.dispatched, host)]

\* the loop without its capacity check
RECURSIVE TickLoopNoLimit(_, _)
TickLoopNoLimit(st, i) ==
    IF i > Len(hosts) THEN st
    ELSE IF DictGet(st.host_in_flight, hosts[i], FALSE) THEN TickLoopNoLimit(st, i + 1)
    ELSE TickLoopNoLimit(schedule_sample(st, hosts[i]), i + 1)

\* the loop without its per-host in-flight check
RECURSIVE TickLoopNoSkip(_, _)
TickLoopNoSkip(st, i) ==
    IF i > Len(hosts) THEN st
    ELSE IF st.global_in_flight >= max_concurrent THEN st
    ELSE TickLoopNoSkip(schedule_sample(st, hosts[i]), i + 1)

\* the for loop of _schedule_tick from position i of the registry
RECURSIVE TickLoop(_, _)
TickLoop(st, i) ==
    IF i > Len(hosts) THEN st
    ELSE IF st.global_in_flight >= max_concurrent THEN st
    ELSE IF DictGet(st.host_in_flight, hosts[i], FALSE) THEN TickLoop(st, i + 1)
    ELSE TickLoop(schedule_sample(st, hosts[i]), i + 1)

\* _schedule_tick without its is_monitoring check
TickResultUnguarded ==
    LET st == [host_in_flight   |-> host_in_flight,
               global_in_flight |-> global_in_flight,
               workers          |-> workers,
               dispatched       |-> <<>>]
    IN  IF Len(hosts) = 0 THEN st
        ELSE IF global_in_flight >= max_concurrent THEN st
        ELSE TickLoop(st, 1)

\* the state _schedule_tick leaves behind
TickResult ==
    LET st == [host_in_flight   |-> host_in_flight,
               global_in_flight |-> global_in_flight,
               workers          |-> workers,
               dispatched       |-> <<>>]
    IN  IF ~is_monitoring THEN st
        ELSE IF Len(hosts) = 0 THEN st
        ELSE IF global_in_flight >= max_concurrent THEN st
        ELSE TickLoop(st, 1)

schedule_tick ==
    LET st == TickResult IN
    /\ host_in_flight' = st.host_in_flight
    /\ global_in_flight' = st.global_in_flight
    /\ workers' = st.workers
    /\ last' = Event("tick", <<>>, st.dispatched, <<>>)
    /\ UNCHANGED <<hosts, generation_id, is_monitoring, interval_ms,
                   max_concurrent, timer, measurements, max_rows, snapshot>>

(* ---------------------------- SampleWorker ----------------------------- *)

\* run raising after it has emitted the sample, inside the try block
RunReturnsThenError(w, sample) ==
    <<SampleReady(sample, w.generation_id, w.host), WorkerError(ProbeFailure),
      Finished>>

\* the reports SampleWorker.run emits, in order, when the probe returns sample
\* (the debug call after the emit reads sample.loss, which every Measurement
\* has, so it does not raise)
RunReturns(w, sample) == <<SampleReady(sample, w.generation_id, w.host), Finished>>

\* run reporting a lost sample in place of the probe's exception
RunRaisesSynthesized(w, msg) ==
    <<SampleReady(Measurement(w.host, None, TRUE), w.generation_id, w.host),
      WorkerError(msg), Finished>>

\* run without its finally block on the failure path
RunRaisesUnfinished(w, msg) == <<WorkerError(msg)>>

\* the reports SampleWorker.run emits, in order, when the probe raises
RunRaises(w, msg) == <<WorkerError(msg), Finished>>

\* SampleWorker.run on a pool thread: the probe returns a Measurement or raises
SampleWorker_run(w) ==
    /\ w \in Outstanding
    /\ w.pc = "running"
    /\ \E reports \in
            {RunReturns(w, Measurement(w.host, r[1], r[2])) : r \in ProbeReturns}
            \cup {RunRaises(w, ProbeFailure)} :
         workers' = Replace(workers, w, [w EXCEPT !.pc = "done", !.queue = reports])
    /\ last' = Event("run", <<w>>, <<>>, <<>>)
    /\ UNCHANGED <<sched, measurements, max_rows, snapshot>>

(* ------------------------- report handlers ----------------------------- *)

\* the report of worker w the control thread handles next
Pending(w, sig) ==
    /\ w \in Outstanding
    /\ w.queue # <<>>
    /\ Head(w.queue)[1] = sig

Handled(w) == [w EXCEPT !.queue = Tail(w.queue)]

\* _on_sample_ready without its generation check
ForwardsAnyGeneration(gen) == is_monitoring

\* _on_sample_ready without either check
ForwardsUnconditionally(gen) == TRUE

\* _on_sample_ready with its generation check inverted
ForwardsInverted(gen) ==
    IF gen = generation_id THEN FALSE
    ELSE IF ~is_monitoring THEN FALSE
    ELSE TRUE

\* does _on_sample_ready forward a report stamped gen?
Forwards(gen) ==
    IF gen # generation_id THEN FALSE
    ELSE IF ~is_monitoring THEN FALSE
    ELSE TRUE

\* _on_sample_ready, and MainWindow.on_sample_ready on the signal it emits
on_sample_ready(w) ==
    /\ Pending(w, "sample_ready")
    /\ LET sample == Head(w.queue)[2]
           gen    == Head(w.queue)[3]
           host   == Head(w.queue)[4]
       IN  IF Forwards(gen)
           THEN /\ measurements' = append_measurement(measurements, sample)
                /\ last' = Event("sample_ready", <<w>>, <<>>,
                                 <<SampleReady(sample, gen, host)>>)
           ELSE /\ UNCHANGED measurements
                /\ last' = Event("sample_ready", <<w>>, <<>>, <<>>)
    /\ workers' = Replace(workers, w, Handled(w))
    /\ UNCHANGED <<sched, max_rows, snapshot>>

Unknown == <<"u", "n", "k", "n", "o", "w", "n">>

\* _on_sample_error
on_sample_error(w) ==
    /\ Pending(w, "error")
    /\ LET error_msg == Head(w.queue)[2]
       IN  last' = Event("sample_error", <<w>>, <<>>,
                         <<SchedulerError(Unknown, error_msg)>>)
    /\ workers' = Replace(workers, w, Handled(w))
    /\ UNCHANGED <<sched, measurements, max_rows, snapshot>>

\* _on_sample_finished that counts only the completions of registered hosts
on_sample_finished_registered(w) ==
    /\ Pending(w, "finished")
    /\ IF InList(w.host, hosts)
       THEN /\ host_in_flight' = DictSet(host_in_flight, w.host, FALSE)
            /\ global_in_flight' = Max(0, global_in_flight - 1)
       ELSE UNCHANGED <<host_in_flight, global_in_flight>>
    /\ workers' = workers (-) SetToBag({w})
    /\ last' = Event("sample_finished", <<w>>, <<>>, <<>>)
    /\ UNCHANGED <<hosts, generation_id, is_monitoring, interval_ms,
                   max_concurrent, timer, measurements, max_rows, snapshot>>

\* _on_sample_finished(host), host bound by the lambda of _schedule_sample
on_sample_finished(w) ==
    /\ Pending(w, "finished")
    /\ host_in_flight' = DictSet(host_in_flight, w.host, FALSE)
    /\ global_in_flight' = Max(0, global_in_flight - 1)
    /\ workers' = workers (-) SetToBag({w})
    /\ last' = Event("sample_finished", <<w>>, <<>>, <<>>)
    /\ UNCHANGED <<hosts, generation_id, is_monitoring, interval_ms,
                   max_concurrent, timer, measurements, max_rows, snapshot>>

(* ------------------------------ snapshots ------------------------------ *)

\* get_hosts handing out the registry's own list
get_hosts_live ==
    /\ snapshot' = Returned("hosts", TRUE, hosts)
    /\ last' = Event("get_hosts", <<>>, <<>>, <<>>)
    /\ UNCHANGED <<sched, workers, measurements, max_rows>>

\* get_hosts: list(self._hosts)
get_hosts ==
    /\ snapshot' = Returned("hosts", FALSE, hosts)
    /\ last' = Event("get_hosts", <<>>, <<>>, <<>>)
    /\ UNCHANGED <<sched, workers, measurements, max_rows>>

\* get_stats: a new dict of five values
get_stats ==
    /\ snapshot' = Returned("stats", FALSE,
                            [hosts          |-> Len(hosts),
                             in_flight      |-> global_in_flight,
                             max_concurrent |-> max_concurrent,
                             monitoring     |-> is_monitoring,
                             generation_id  |-> generation_id])
    /\ last' = Event("get_stats", <<>>, <<>>, <<>>)
    /\ UNCHANGED <<sched, workers, measurements, max_rows>>

\* MeasurementModel.get_measurements: list(self._measurements)
get_measurements ==
    /\ snapshot' = Returned("measurements", FALSE, measurements)
    /\ last' = Event("get_measurements", <<>>, <<>>, <<>>)
    /\ UNCHANGED <<sched, workers, measurements, max_rows>>

\* the caller empties the list it was handed (returned.clear()); the
\* registry or the store changes with it when the list is their own object
clear_returned ==
    /\ snapshot.of \in {"hosts", "measurements"}
    /\ snapshot' = [snapshot EXCEPT !.value = <<>>]
    /\ hosts' = IF snapshot.live /\ snapshot.of = "hosts" THEN <<>> ELSE hosts
    /\ measurements' =
         IF snapshot.live /\ snapshot.of = "measurements" THEN <<>> ELSE measurements
    /\ last' = Event("clear_returned", <<>>, <<>>, <<>>)
    /\ UNCHANGED <<host_in_flight, global_in_flight, generation_id,
                   is_monitoring, interval_ms, max_concurrent, timer, workers,
                   max_rows>>

(* ------------------------------- Next ---------------------------------- *)

Next ==
    \/ \E host \in HostInputs : add_host(host)
    \/ \E host \in HostInputs : remove_host(host)
    \/ clear_hosts
    \/ start_monitoring
    \/ stop_monitoring
    \/ \E ms \in IntervalInputs : set_interval(ms)
    \/ clear_data
    \/ schedule_tick
    \/ \E w \in Outstanding : SampleWorker_run(w)
    \/ \E w \in Outstanding : on_sample_ready(w)
    \/ \E w \in Outstanding : on_sample_error(w)
    \/ \E w \in Outstanding : on_sample_finished(w)

Spec == Init /\ [][Next]_vars

(* ------------------------ one worker at a time ------------------------- *)

\* MultiHostScheduler(collector, interval_ms, max_concurrent=1)
InitSerial ==
    /\ hosts = <<>>
    /\ host_in_flight = EmptyDict
    /\ global_in_flight = 0
    /\ generation_id = 0
    /\ is_monitoring = FALSE
    /\ interval_ms \in IntervalInputs
    /\ max_concurrent = 1
    /\ timer = [active |-> FALSE, interval |-> 0]
    /\ workers = EmptyBag
    /\ measurements = <<>>
    /\ max_rows = MaxRows
    /\ snapshot = NoSnapshot
    /\ last = Event("init", <<>>, <<>>, <<>>)

SerialSpec == InitSerial /\ [][Next]_vars

(* ---------------------- registry of three hosts ------------------------ *)

HostA == <<"a">>

HostB == <<"b">>

HostC == <<"c">>

\* the scheduler as MainWindow.__init__ leaves it: three hosts added in order
InitSteady ==
    /\ hosts = <<HostA, HostB, HostC>>
    /\ host_in_flight = [h \in {HostA, HostB, HostC} |-> FALSE]
    /\ global_in_flight = 0
    /\ generation_id = 0
    /\ is_monitoring = FALSE
    /\ interval_ms \in IntervalInputs
    /\ max_concurrent \in ConcurrencyInputs
    /\ timer = [active |-> FALSE, interval |-> 0]
    /\ workers = EmptyBag
    /\ measurements = <<>>
    /\ max_rows = MaxRows
    /\ snapshot = NoSnapshot
    /\ last = Event("init", <<>>, <<>>, <<>>)

\* monitoring is started and never stopped, the registry is left alone
NextSteady ==
    \/ start_monitoring
    \/ schedule_tick
    \/ \E w \in Outstanding : SampleWorker_run(w)
    \/ \E w \in Outstanding : on_sample_ready(w)
    \/ \E w \in Outstanding : on_sample_error(w)
    \/ \E w \in Outstanding : on_sample_finished(w)

\* once started the timer keeps firing, every probe returns or raises, and
\* the event loop delivers every queued report
LiveSpec ==
    /\ InitSteady
    /\ [][NextSteady]_vars
    /\ WF_vars(schedule_tick)
    /\ WF_vars(\E w \in Outstanding : SampleWorker_run(w))
    /\ WF_vars(\E w \in Outstanding : on_sample_ready(w))
    /\ WF_vars(\E w \in Outstanding : on_sample_error(w))
    /\ WF_vars(\E w \in Outstanding : on_sample_finished(w))

(* ------------------- sessions over a fixed registry -------------------- *)

\* the registry of MainWindow.__init__ is left alone; monitoring is started
\* and stopped and the collected data cleared while workers are in flight
NextSession ==
    \/ start_monitoring
    \/ stop_monitoring
    \/ clear_data
    \/ schedule_tick
    \/ \E w \in Outstanding : SampleWorker_run(w)
    \/ \E w \in Outstanding : on_sample_ready(w)
    \/ \E w \in Outstanding : on_sample_error(w)
    \/ \E w \in Outstanding : on_sample_finished(w)

SessionSpec == InitSteady /\ [][NextSession]_vars

(* ----------------------- workers draining ------------------------------ *)

\* the hosts registered when the sessions begin
DrainHosts == {HostA, HostB}

InitDrain ==
    /\ hosts = <<HostA, HostB>>
    /\ host_in_flight = [h \in DrainHosts |-> FALSE]
    /\ global_in_flight = 0
    /\ generation_id = 0
    /\ is_monitoring = FALSE
    /\ interval_ms \in IntervalInputs
    /\ max_concurrent \in ConcurrencyInputs
    /\ timer = [active |-> FALSE, interval |-> 0]
    /\ workers = EmptyBag
    /\ measurements = <<>>
    /\ max_rows = MaxRows
    /\ snapshot = NoSnapshot
    /\ last = Event("init", <<>>, <<>>, <<>>)

\* sessions during which hosts are removed
NextDrain ==
    \/ \E host \in DrainHosts : remove_host(host)
    \/ start_monitoring
    \/ stop_monitoring
    \/ schedule_tick
    \/ \E w \in Outstanding : SampleWorker_run(w)
    \/ \E w \in Outstanding : on_sample_ready(w)
    \/ \E w \in Outstanding : on_sample_error(w)
    \/ \E w \in Outstanding : on_sample_finished(w)

\* the next step of the worker probing host: its run on a pool thread, or
\* the handler of its first queued report on the control thread
WorkerStep(host) ==
    \E w \in Outstanding :
        /\ w.host = host
        /\ \/ SampleWorker_run(w)
           \/ on_sample_ready(w)
           \/ on_sample_error(w)
           \/ on_sample_finished(w)

\* the pool runs every worker it was given, every probe returns or raises,
\* and the event loop delivers every queued report; the timer may be stopped.
\* A removed host is not added again here, so a host has one worker at most.
DrainSpec ==
    /\ InitDrain
    /\ [][NextDrain]_vars
    /\ \A host \in DrainHosts : WF_vars(WorkerStep(host))

(* ---------------------- registries that only grow --------------------- *)

\* sessions during which hosts are added and none is removed
NextGrow ==
    \/ \E host \in HostInputs : add_host(host)
    \/ NextSession

GrowSpec == Init /\ [][NextGrow]_vars

(* ------------------- registries that grow and shrink ------------------- *)

\* sessions during which hosts are added, removed and cleared
NextRegistry ==
    \/ \E host \in {HostA, HostB} : add_host(host)
    \/ \E host \in {HostA, HostB} : remove_host(host)
    \/ clear_hosts
    \/ start_monitoring
    \/ stop_monitoring
    \/ schedule_tick
    \/ \E w \in Outstanding : SampleWorker_run(w)
    \/ \E w \in Outstanding : on_sample_ready(w)
    \/ \E w \in Outstanding : on_sample_error(w)
    \/ \E w \in Outstanding : on_sample_finished(w)

RegistrySpec == Init /\ [][NextRegistry]_vars

(* --------------------- callers taking snapshots ------------------------ *)

NextSnapshot ==
    \/ get_hosts
    \/ get_stats
    \/ get_measurements
    \/ clear_returned
    \/ clear_hosts
    \/ NextSession

SnapshotSpec == InitSteady /\ [][NextSnapshot]_vars

(* ------------------------ sampling intervals --------------------------- *)

\* interval_ms values MultiHostScheduler(collector, interval_ms) is built with
ConstructorIntervals == {0, 200, 1000}

\* interval_ms values passed to set_interval (MainWindow.INTERVAL_OPTIONS)
IntervalOptions == {200, 1000}

\* a scheduler built with any of the intervals, the default hosts added
InitInterval ==
    /\ hosts = <<HostA, HostB, HostC>>
    /\ host_in_flight = [h \in {HostA, HostB, HostC} |-> FALSE]
    /\ global_in_flight = 0
    /\ generation_id = 0
    /\ is_monitoring = FALSE
    /\ interval_ms \in ConstructorIntervals
    /\ max_concurrent \in ConcurrencyInputs
    /\ timer = [active |-> FALSE, interval |-> 0]
    /\ workers = EmptyBag
    /\ measurements = <<>>
    /\ max_rows = MaxRows
    /\ snapshot = NoSnapshot
    /\ last = Event("init", <<>>, <<>>, <<>>)

NextInterval ==
    \/ \E ms \in IntervalOptions : set_interval(ms)
    \/ NextSession

IntervalSpec == InitInterval /\ [][NextInterval]_vars

(* ------------------------ the Result Store alone ----------------------- *)

\* max_rows values passed to MeasurementModel(max_rows)
RowInputs == 1..MaxStoreRows

\* latency_ms and loss arguments of the Measurement constructor
LatencyInputs == {None, Some(0), Some(25)}

LossInputs == {TRUE, FALSE}

\* a store of any capacity beside a scheduler that is never started
InitStore ==
    /\ hosts = <<>>
    /\ host_in_flight = EmptyDict
    /\ global_in_flight = 0
    /\ generation_id = 0
    /\ is_monitoring = FALSE
    /\ interval_ms \in IntervalInputs
    /\ max_concurrent = 1
    /\ timer = [active |-> FALSE, interval |-> 0]
    /\ workers = EmptyBag
    /\ measurements = <<>>
    /\ max_rows \in RowInputs
    /\ snapshot = NoSnapshot
    /\ last = Event("init", <<>>, <<>>, <<>>)

\* model.append_measurement(Measurement(ts, host, latency_ms, loss))
MeasurementModel_append(host, latency_ms, loss) ==
    /\ measurements' = append_measurement(measurements, Measurement(host, latency_ms, loss))
    /\ last' = Call("append_measurement", <<host, latency_ms, loss>>)
    /\ UNCHANGED <<sched, workers, max_rows, snapshot>>

NextStore ==
    \/ \E host \in {HostA, HostB}, latency_ms \in LatencyInputs, loss \in LossInputs :
          MeasurementModel_append(host, latency_ms, loss)
    \/ clear_data

StoreSpec == InitStore /\ [][NextStore]_vars

(* ------------------------------- claims -------------------------------- *)

Min(a, b) == IF a <= b THEN a ELSE b

\* the registered hosts that are not flagged in-flight, in registry order
IdleHosts == SelectSeq(hosts, LAMBDA h : ~DictGet(host_in_flight, h, FALSE))

\* the workers a tick creates for the hosts of list
Dispatched(list) ==
    LET RECURSIVE Sum(_)
        Sum(i) == IF i > Len(list) THEN EmptyBag
                  ELSE SetToBag({SampleWorker(list[i], generation_id)}) (+) Sum(i + 1)
    IN  Sum(1)

\* C1: every host has at most one outstanding worker, whatever the
\* interleaving of add_host, remove_host, clear_hosts, start, stop, ticks and
\* completions, a host removed and added again while in flight included.
SingleFlight == \A w \in Outstanding : OutstandingFor(w.host) <= 1

\* C2: the global in-flight count never exceeds max_concurrent.
Capacity == global_in_flight <= max_concurrent

\* C2 witness: a tick has filled the capacity and left a registered host idle.
CapacityWitness ==
    /\ last.op = "tick"
    /\ last.dispatched # <<>>
    /\ global_in_flight = max_concurrent
    /\ IdleHosts # <<>>

\* C3: a success report whose stamped generation differs from the generation
\* current when it is handled is neither forwarded nor appended to the store.
Staleness ==
    [][ (last'.op = "sample_ready" /\ last'.stamp # generation_id)
            => (last'.emitted = <<>> /\ measurements' = measurements) ]_vars

\* C3 witness: a report stamped with an older generation has been handled
\* while the scheduler was running again, and nothing was emitted.
StalenessWitness ==
    /\ last.op = "sample_ready"
    /\ last.stamp # generation_id
    /\ is_monitoring
    /\ last.emitted = <<>>

\* C4: the report of a worker dispatched before a stop is never forwarded or
\* stored once that stop has happened, even after a restart; the report of a
\* worker dispatched since the latest stop is forwarded and stored.
SessionIsolation ==
    [][ last'.op = "sample_ready" =>
            IF last'.before_stop
            THEN last'.emitted = <<>> /\ measurements' = measurements
            ELSE /\ Len(last'.emitted) = 1
                 /\ measurements' = append_measurement(measurements, last'.emitted[1][2]) ]_vars

\* C4 witness: after stop and a new start, a report of the earlier session
\* has been handled and dropped.
SessionIsolationWitness ==
    /\ last.op = "sample_ready"
    /\ last.before_stop
    /\ is_monitoring
    /\ last.emitted = <<>>
    /\ measurements = <<>>

\* C5: clearing collected data raises the generation by exactly 1 and empties
\* the store, so every worker outstanding at the clear is stale afterwards and
\* its result is rejected.
ClearInvalidates ==
    [][ /\ last'.op = "clear_data" =>
            /\ generation_id' = generation_id + 1
            /\ measurements' = <<>>
            /\ \A w \in BagToSet(workers') : w.generation_id # generation_id'
        /\ (last.op = "clear_data" /\ last'.op = "sample_ready")
             => (last'.emitted = <<>> /\ measurements' = <<>>) ]_vars

\* C6: the generation starts at 0 and never decreases; stop_monitoring while
\* running adds exactly 1; start_monitoring, add_host, remove_host,
\* clear_hosts, set_interval, ticks and worker reports leave it alone.
MonotonicGeneration ==
    /\ generation_id = 0
    /\ [][ /\ generation_id' >= generation_id
           /\ (last'.op = "stop_monitoring" /\ is_monitoring)
                => generation_id' = generation_id + 1
           /\ last'.op \in {"start_monitoring", "add_host", "remove_host",
                            "clear_hosts", "set_interval", "tick", "run",
                            "sample_ready", "sample_error", "sample_finished"}
                => generation_id' = generation_id ]_vars

\* C6 witness: stop_monitoring has stopped a running scheduler.
MonotonicGenerationWitness ==
    /\ last.op = "stop_monitoring"
    /\ ~is_monitoring
    /\ generation_id = 1

\* C7: hosts A, B, C added in that order, max_concurrent = 1: when the worker
\* a tick dispatched has completed, the next tick dispatches the host after
\* it (A, then B), not A again.
FairnessRotation ==
    [][ ( /\ last.op = "sample_finished"
          /\ last.host = HostA
          /\ last'.op = "tick"
          /\ hosts = <<HostA, HostB, HostC>>
          /\ max_concurrent = 1
          /\ is_monitoring
          /\ global_in_flight = 0 )
            => last'.dispatched = <<HostB>> ]_vars

\* C8: while the scheduler stays running with an unchanged registry, every
\* registered host is eventually dispatched.
NoStarvation ==
    \A h \in {HostA, HostB, HostC} :
        [](is_monitoring => <>(last.op = "tick" /\ InList(h, last.dispatched)))

\* C9: start_monitoring twice in a row, or stop_monitoring twice in a row,
\* leaves the state as the first call left it.
Idempotence ==
    [][ /\ (last.op = "start_monitoring" /\ last'.op = "start_monitoring")
             => UNCHANGED <<sched, workers, measurements>>
        /\ (last.op = "stop_monitoring" /\ last'.op = "stop_monitoring")
             => UNCHANGED <<sched, workers, measurements>> ]_vars

\* C9 witness: stop_monitoring has just stopped a scheduler with a worker
\* outstanding, the state in which the second call is made.
IdempotenceWitness ==
    /\ last.op = "stop_monitoring"
    /\ ~is_monitoring
    /\ generation_id > 0
    /\ global_in_flight > 0

\* C10: a tick while running with count c, capacity m and k idle hosts
\* dispatches exactly the first min(k, max(0, m - c)) idle hosts in registry
\* order, flags each of them and raises the count by that number.
TickAdmission ==
    [][ (last'.op = "tick" /\ is_monitoring) =>
            LET n == Min(Len(IdleHosts), Max(0, max_concurrent - global_in_flight))
                admitted == SubSeq(IdleHosts, 1, n)
            IN  /\ last'.dispatched = admitted
                /\ workers' = workers (+) Dispatched(admitted)
                /\ global_in_flight' = global_in_flight + n
                /\ host_in_flight' =
                     [h \in DOMAIN host_in_flight |->
                        IF InList(h, admitted) THEN TRUE ELSE host_in_flight[h]]
                /\ UNCHANGED <<hosts, generation_id, is_monitoring, measurements>> ]_vars

\* C10 witness: a tick at full capacity has dispatched nothing although a
\* registered host was idle.
TickAdmissionWitness ==
    /\ last.op = "tick"
    /\ is_monitoring
    /\ last.dispatched = <<>>
    /\ global_in_flight >= max_concurrent
    /\ IdleHosts # <<>>

\* C11: the in-flight count goes up by one per dispatch and down by one per
\* handled completion (accepted, stale or failed, host registered or not), so
\* it always equals the number of dispatched workers whose completion has not
\* been handled.
InFlightAccounting == global_in_flight = BagCardinality(workers)

\* C11 witness: the completion of a worker whose host is no longer registered
\* has been handled while another worker is still outstanding.
InFlightAccountingWitness ==
    /\ last.op = "sample_finished"
    /\ ~InList(last.host, hosts)
    /\ global_in_flight = 1
    /\ BagCardinality(workers) = 1

\* C12: the result of a worker whose host is no longer in the registry when
\* the result arrives (remove_host or clear_hosts ran after the dispatch) is
\* neither forwarded nor stored, even with a matching generation while
\* running.
RemovedHostDiscarded ==
    [][ (last'.op = "sample_ready" /\ ~InList(last'.host, hosts))
            => (last'.emitted = <<>> /\ measurements' = measurements) ]_vars

\* the host without its leading and trailing whitespace
Trimmed(host) ==
    LET first == CHOOSE i \in 1..(Len(host) + 1) :
                    /\ \A j \in 1..(i - 1) : IsSpace(host[j])
                    /\ i <= Len(host) => ~IsSpace(host[i])
        lastc == CHOOSE i \in 0..Len(host) :
                    /\ \A j \in (i + 1)..Len(host) : IsSpace(host[j])
                    /\ i >= 1 => ~IsSpace(host[i])
    IN  IF first > lastc THEN <<>> ELSE SubSeq(host, first, lastc)

QuietWhileStopped ==
    [][ ~is_monitoring =>
            /\ \A i \in 1..Len(last'.emitted) : last'.emitted[i][1] # "sample_ready"
            /\ measurements' = measurements \/ measurements' = <<>> ]_vars

\* C14 witness: a success report has been handled while the scheduler was
\* stopped, and the store is still empty.
QuietWhileStoppedWitness ==
    /\ last.op = "sample_ready"
    /\ ~is_monitoring
    /\ generation_id > 0
    /\ last.emitted = <<>>
    /\ measurements = <<>>

\* worker w still holds an unhandled report of kind sig
HasReport(w, sig) == \E i \in 1..Len(w.queue) : w.queue[i][1] = sig

\* C15: when the probe raises, the worker reports no Measurement; handling
\* its error report emits one error notification with the probe's message,
\* stores nothing and leaves the scheduler's state (Idle or Running) as it
\* was; the worker's completion is still delivered and clears its host's
\* in-flight flag and lowers the in-flight count by one.
ProbeFailureContained ==
    /\ [](\A w \in Outstanding : HasReport(w, "error") => ~HasReport(w, "sample_ready"))
    /\ [][ last'.op = "sample_error" =>
             /\ Len(last'.emitted) = 1
             /\ last'.emitted[1][1] = "error"
             /\ last'.emitted[1][3] = ProbeFailure
             /\ UNCHANGED <<sched, measurements>>
             /\ \E v \in BagToSet(workers') :
                    v.host = last'.host /\ v.queue = <<Finished>> ]_vars
    /\ [][ last'.op = "sample_finished" =>
             /\ host_in_flight'[last'.host] = FALSE
             /\ global_in_flight' = global_in_flight - 1
             /\ UNCHANGED <<is_monitoring, measurements>> ]_vars

\* C15 witness: the error report of a failed probe has been handled while
\* running; nothing is stored and the worker's completion is still to come.
ProbeFailureContainedWitness ==
    /\ last.op = "sample_error"
    /\ last.emitted # <<>>
    /\ is_monitoring
    /\ measurements = <<>>
    /\ host_in_flight[last.host] = TRUE
    /\ \E w \in Outstanding : w.host = last.host /\ w.queue = <<Finished>>

LastN(seq, n) ==
    IF Len(seq) <= n THEN seq ELSE SubSeq(seq, Len(seq) - n + 1, Len(seq))

\* C17: a success report stamped with the current generation and handled
\* while running is forwarded once, with the Measurement, generation and host
\* the worker reported, and the Measurement is appended once to the store;
\* the report is consumed by that step.
Acceptance ==
    [][ (last'.op = "sample_ready" /\ last'.stamp = generation_id /\ is_monitoring) =>
            \E w \in Outstanding :
                /\ Pending(w, "sample_ready")
                /\ w.host = last'.host
                /\ last'.emitted = <<Head(w.queue)>>
                /\ Head(w.queue)[3] = w.generation_id
                /\ Head(w.queue)[4] = w.host
                /\ measurements' = LastN(measurements \o <<Head(w.queue)[2]>>, max_rows)
                /\ workers' = Replace(workers, w, [w EXCEPT !.queue = <<Finished>>]) ]_vars

\* C17 witness: in the session after a stop and a new start, a report of
\* that session has been forwarded and its Measurement is in the store.
AcceptanceWitness ==
    /\ last.op = "sample_ready"
    /\ generation_id > 0
    /\ last.stamp = generation_id
    /\ is_monitoring
    /\ Len(last.emitted) = 1
    /\ measurements # <<>>
    /\ measurements[Len(measurements)] = last.emitted[1][2]

\* C18: clearing the collected data leaves the running flag, the registry,
\* the in-flight flags and the in-flight count unchanged; the tick that
\* follows a clear while running dispatches the idle hosts up to the free
\* capacity; and a result of the current session (no stop since its
\* dispatch) with the current generation is accepted, after a clear too.
ClearKeepsMonitoring ==
    [][ /\ last'.op = "clear_data" =>
            /\ UNCHANGED <<is_monitoring, hosts, host_in_flight, global_in_flight>>
            /\ UNCHANGED <<timer, workers>>
        /\ (last.op = "clear_data" /\ last'.op = "tick" /\ is_monitoring) =>
            /\ Len(last'.dispatched) =
                 Min(Len(IdleHosts), Max(0, max_concurrent - global_in_flight))
            /\ global_in_flight' = global_in_flight + Len(last'.dispatched)
        /\ (last'.op = "sample_ready" /\ ~last'.before_stop /\ is_monitoring) =>
            /\ Len(last'.emitted) = 1
            /\ measurements' # <<>>
            /\ measurements'[Len(measurements')] = last'.emitted[1][2] ]_vars

\* C18 witness: the data has just been cleared while the scheduler is
\* running in its second session with a worker in flight and a host idle.
ClearKeepsMonitoringWitness ==
    /\ last.op = "clear_data"
    /\ is_monitoring
    /\ timer.active
    /\ generation_id > 0
    /\ global_in_flight > 0
    /\ IdleHosts # <<>>

\* C19: the store never holds more than max_rows entries; an append puts the
\* Measurement behind the entries held, after dropping the oldest one when
\* the store is at capacity, and a clear empties it.  So the store holds the
\* latest min(n, max_rows) of the n Measurements appended since the last
\* clear, in arrival order.
StoreBound ==
    /\ [](Len(measurements) <= max_rows)
    /\ [][ last'.op = "append_measurement" =>
             /\ measurements' # <<>>
             /\ LET m == measurements'[Len(measurements')]
                IN  /\ m.host = last'.args[1]
                    /\ measurements' = LastN(measurements \o <<m>>, max_rows) ]_vars
    /\ [][ last'.op = "clear_data" => measurements' = <<>> ]_vars

\* C19 witness: a store of capacity 2 is full after an append, and holds two
\* different Measurements.
StoreBoundWitness ==
    /\ last.op = "append_measurement"
    /\ max_rows = 2
    /\ Len(measurements) = 2
    /\ measurements[1] # measurements[2]

\* C20: whatever latency (absent, 0 or positive) and loss flag the
\* constructor is given, the Measurement has loss = TRUE exactly when its
\* latency is absent: loss = TRUE makes the latency absent, an absent latency
\* makes loss TRUE.
MeasurementInvariant ==
    /\ [](\A i \in 1..Len(measurements) :
            measurements[i].loss <=> (measurements[i].latency_ms = None))
    /\ [][ last'.op = "append_measurement" =>
             LET m == measurements'[Len(measurements')]
                 latency_ms == last'.args[2]
                 loss == last'.args[3]
             IN  /\ m.loss <=> (m.latency_ms = None)
                 /\ loss => (m.latency_ms = None /\ m.loss)
                 /\ latency_ms = None => m.loss ]_vars

\* C20 witness: a Measurement constructed with a latency and loss = TRUE has
\* been stored without its latency.
MeasurementInvariantWitness ==
    /\ last.op = "append_measurement"
    /\ last.args[2] = Some(25)
    /\ last.args[3] = TRUE
    /\ measurements[Len(measurements)].latency_ms = None
    /\ measurements[Len(measurements)].loss

\* C21: set_interval(ms) sets the configured interval to ms; while running it
\* switches the timer's period to ms without stopping or restarting, and
\* while idle it leaves the timer alone and the next start_monitoring starts
\* the timer with ms.  So whenever the scheduler is running the timer's
\* period is the configured interval.
IntervalInEffect ==
    /\ [](is_monitoring => (timer.active /\ timer.interval = interval_ms))
    /\ [][ last'.op = "set_interval" =>
             /\ interval_ms' = last'.args[1]
             /\ is_monitoring' = is_monitoring
             /\ timer'.active = timer.active
             /\ generation_id' = generation_id
             /\ IF is_monitoring THEN timer'.interval = last'.args[1]
                                 ELSE timer' = timer ]_vars
    /\ [][ (last'.op = "start_monitoring" /\ ~is_monitoring) =>
             (timer'.active /\ timer'.interval = interval_ms) ]_vars

\* C21 witness: set_interval has changed the period of the running timer.
IntervalInEffectWitness ==
    /\ last.op = "set_interval"
    /\ is_monitoring
    /\ global_in_flight > 0
    /\ interval_ms = 200
    /\ timer = [active |-> TRUE, interval |-> 200]

\* C23: a scheduler cannot be built with a non-positive sampling interval
\* (construction fails), so the scheduler is never running with
\* interval_ms <= 0.
ValidIntervalWhenRunning == is_monitoring => interval_ms > 0

\* C22: the scheduler starts Idle; start_monitoring leaves it Running and
\* stop_monitoring leaves it Idle; add_host, remove_host, clear_hosts,
\* clearing data, set_interval, ticks, worker runs and worker reports never
\* change the state; the tick timer is active exactly while Running.
StateMachine ==
    /\ ~is_monitoring
    /\ [](timer.active <=> is_monitoring)
    /\ [][ /\ last'.op = "start_monitoring" => is_monitoring'
           /\ last'.op = "stop_monitoring" => ~is_monitoring'
           /\ last'.op \in {"add_host", "remove_host", "clear_hosts",
                            "clear_data", "set_interval", "tick", "run",
                            "sample_ready", "sample_error", "sample_finished"}
                => is_monitoring' = is_monitoring ]_vars

\* C22 witness: the registry has been cleared while Running with a worker in
\* flight, and the scheduler is still Running.
StateMachineWitness ==
    /\ last.op = "clear_hosts"
    /\ hosts = <<>>
    /\ is_monitoring
    /\ timer.active
    /\ global_in_flight > 0

\* C24: get_hosts, get_stats and get_measurements change no scheduler or
\* store state; get_stats reports the current host count, in-flight count,
\* capacity, running flag and generation; get_hosts and get_measurements
\* return the current content in a list of their own, so a caller emptying
\* the returned list changes neither the registry nor the store.
SnapshotsReadOnly ==
    [][ /\ last'.op \in {"get_hosts", "get_stats", "get_measurements"} =>
            UNCHANGED <<sched, workers, measurements, max_rows>>
        /\ last'.op = "get_hosts" =>
            snapshot'.value = hosts
        /\ last'.op = "get_measurements" =>
            snapshot'.value = measurements
        /\ last'.op = "get_stats" =>
            /\ snapshot'.value.hosts = Len(hosts)
            /\ snapshot'.value.in_flight = global_in_flight
            /\ snapshot'.value.max_concurrent = max_concurrent
            /\ snapshot'.value.monitoring = is_monitoring
            /\ snapshot'.value.generation_id = generation_id
        /\ last'.op = "clear_returned" =>
            UNCHANGED <<sched, workers, measurements, max_rows>> ]_vars

\* C24 witness: a caller has emptied the list get_hosts returned while the
\* scheduler is running with a worker in flight, and the registry still holds
\* its three hosts.
SnapshotsReadOnlyWitness ==
    /\ last.op = "clear_returned"
    /\ snapshot.of = "hosts"
    /\ snapshot.value = <<>>
    /\ Len(hosts) = 3
    /\ is_monitoring
    /\ global_in_flight > 0

\* C25: the hosts that have an in-flight flag are exactly the registered
\* hosts; the completion of a worker whose host was removed adds no flag.
FlagsMatchRegistry ==
    DOMAIN host_in_flight = {hosts[i] : i \in 1..Len(hosts)}

\* C26: the error notification the scheduler emits for a failed probe
\* carries the host of the worker whose probe failed and the failure message.
ErrorNamesHost ==
    [][ last'.op = "sample_error" =>
            /\ Len(last'.emitted) = 1
            /\ last'.emitted[1][2] = last'.host
            /\ last'.emitted[1][3] = ProbeFailure ]_vars

\* C27: a tick while the scheduler is not running, or while the registry is
\* empty, dispatches no worker and leaves the registry, the in-flight flags,
\* the in-flight count, the generation and the running flag unchanged.
IdleTick ==
    [][ (last'.op = "tick" /\ (~is_monitoring \/ hosts = <<>>)) =>
            /\ last'.dispatched = <<>>
            /\ workers' = workers
            /\ UNCHANGED <<hosts, host_in_flight, global_in_flight,
                           generation_id, is_monitoring>> ]_vars

\* C27 witness: a tick has fired after a stop, with a registered host idle
\* and capacity free, and has dispatched nothing.
IdleTickWitness ==
    /\ last.op = "tick"
    /\ ~is_monitoring
    /\ generation_id > 0
    /\ IdleHosts # <<>>
    /\ global_in_flight < max_concurrent
    /\ last.dispatched = <<>>

Drain ==
    /\ \A h \in DrainHosts :
          (\E w \in Outstanding : w.host = h) ~> ~(\E w \in Outstanding : w.host = h)
    /\ \A h \in DrainHosts :
          DictGet(host_in_flight, h, FALSE) ~> ~DictGet(host_in_flight, h, FALSE)
    /\ [][ ~is_monitoring => global_in_flight' <= global_in_flight ]_vars
    /\ <>[](~is_monitoring) => <>[](global_in_flight = 0 /\ workers = EmptyBag)

\* C29 witness: after a stop with workers in flight, the last completion has
\* been handled and the count is back at 0.
DrainWitness ==
    /\ last.op = "sample_finished"
    /\ last.before_stop
    /\ ~is_monitoring
    /\ global_in_flight = 0
    /\ workers = EmptyBag

RunningCheckRedundant ==
    \A w \in Outstanding : w.generation_id = generation_id => is_monitoring

\* C31 witness: the scheduler is stopped and a success report of a worker
\* dispatched before the stop is waiting to be handled.
RunningCheckRedundantWitness ==
    /\ ~is_monitoring
    /\ \E w \in Outstanding :
          /\ Pending(w, "sample_ready")
          /\ w.before_stop
          /\ w.generation_id < generation_id

\* C32 (stamps never run ahead): every outstanding worker's captured generation
\* is at most the scheduler's current generation, and the workers a tick
\* dispatches carry the generation the counter has at that tick.
StampAtDispatch ==
    [][ /\ \A w \in BagToSet(workers') : w.generation_id <= generation_id'
        /\ last'.op = "tick" =>
              \A w \in BagToSet(workers' (-) workers) :
                  /\ w.generation_id = generation_id
                  /\ w.generation_id = generation_id' ]_vars

\* C32 witness: a tick of the second session has dispatched a worker while a
\* worker of the first session, stamped with the earlier generation, is
\* still outstanding.
StampAtDispatchWitness ==
    /\ last.op = "tick"
    /\ last.dispatched # <<>>
    /\ generation_id >= 1
    /\ \E w \in Outstanding : w.generation_id = generation_id
    /\ \E w \in Outstanding : w.generation_id < generation_id

\* C33 (flags mirror workers while no host is removed): for every registered
\* host the in-flight flag is true exactly when one worker is outstanding for
\* the host and false exactly when none is.
FlagsMirrorWorkers ==
    \A i \in 1..Len(hosts) :
        LET flag == DictGet(host_in_flight, hosts[i], FALSE)
            n    == OutstandingFor(hosts[i])
        IN  /\ hosts[i] \in DOMAIN host_in_flight
            /\ flag <=> n = 1
            /\ ~flag <=> n = 0

\* C33 witness: add_host has just been called while one registered host has
\* its worker outstanding and another registered host has none.
FlagsMirrorWorkersWitness ==
    /\ last.op = "add_host"
    /\ \E i, j \in 1..Len(hosts) :
          /\ host_in_flight[hosts[i]] /\ OutstandingFor(hosts[i]) = 1
          /\ ~host_in_flight[hosts[j]] /\ OutstandingFor(hosts[j]) = 0

\* the outstanding workers dispatched before the latest stop
Earlier == [w \in {x \in Outstanding : x.before_stop} |-> workers[w]]

\* C34 (a restart keeps the in-flight accounting): stop_monitoring and
\* start_monitoring leave the flags and the count unchanged; a tick does not
\* dispatch a host that has a worker of an earlier session outstanding; and a
\* tick with max_concurrent such workers outstanding dispatches nothing.
RestartKeepsInFlight ==
    [][ /\ last'.op \in {"start_monitoring", "stop_monitoring"} =>
              UNCHANGED <<host_in_flight, global_in_flight>>
        /\ last'.op = "tick" =>
              /\ \A w \in BagToSet(Earlier) : ~InList(w.host, last'.dispatched)
              /\ BagCardinality(Earlier) >= max_concurrent =>
                    /\ last'.dispatched = <<>>
                    /\ UNCHANGED <<workers, host_in_flight, global_in_flight>> ]_vars

\* C35 (remove_host undoes add_host): for every string h whose trimmed form is
\* not registered, add_host(h) followed by remove_host(h) leaves the registry
\* and the flag map as they were, also when h has leading or trailing spaces.
RemoveUndoesAdd ==
    \A h \in HostInputs :
        ~InList(strip(h), hosts) =>
            RemoveHost(AddHost(Registry, h), h) = Registry

\* C36 (registry order is insertion order): an add_host that registers a host
\* appends it after all registered hosts, also a host that was removed before;
\* a remove_host keeps the order of the remaining hosts; and a tick dispatches
\* hosts in registry order.
InsertionOrder ==
    [][ /\ (last'.op = "add_host" /\ hosts' # hosts) =>
              /\ Len(hosts') = Len(hosts) + 1
              /\ SubSeq(hosts', 1, Len(hosts)) = hosts
              /\ ~InList(hosts'[Len(hosts')], hosts)
        /\ (last'.op = "remove_host" /\ hosts' # hosts) =>
              \E i \in 1..Len(hosts) :
                  hosts' = SubSeq(hosts, 1, i - 1) \o SubSeq(hosts, i + 1, Len(hosts))
        /\ last'.op = "tick" =>
              /\ hosts' = hosts
              /\ \A i, j \in 1..Len(last'.dispatched) :
                    i < j => \E p, q \in 1..Len(hosts) :
                                 /\ p < q
                                 /\ hosts[p] = last'.dispatched[i]
                                 /\ hosts[q] = last'.dispatched[j] ]_vars

\* C36 witness: host a was removed while its worker was in flight and added
\* again, so it stands after b with its flag reset; the tick has dispatched
\* b, the first idle host in registry order, and capacity ran out before a.
InsertionOrderWitness ==
    /\ last.op = "tick"
    /\ max_concurrent = 2
    /\ hosts = <<HostB, HostA>>
    /\ last.dispatched = <<HostB>>
    /\ ~host_in_flight[HostA]
    /\ OutstandingFor(HostA) = 1

\* C37 (the floor at 0 never takes effect): whenever the completion of a
\* worker is handled the in-flight count is at least 1 beforehand, the handler
\* lowers it by exactly one, and the result is the number of workers still
\* outstanding, whatever removals, clear_hosts, stops and starts came before.
FloorNeverTakesEffect ==
    [][ last'.op = "sample_finished" =>
            /\ global_in_flight >= 1
            /\ global_in_flight' = global_in_flight - 1
            /\ global_in_flight - 1 = BagCardinality(workers') ]_vars

\* C37 witness: after a stop, a restart and the removal of its host, the
\* completion of a worker of the earlier session has been handled while two
\* workers were outstanding.
FloorNeverTakesEffectWitness ==
    /\ last.op = "sample_finished"
    /\ last.before_stop
    /\ is_monitoring
    /\ ~InList(last.host, hosts)
    /\ global_in_flight = 1
    /\ \E w \in Outstanding : ~w.before_stop

====
